---------------------------- MODULE Spec2Model ----------------------------
(***************************************************************************)
(* cpj: parallel recursive copy.  A model of parallelCopy, jobDispatcher   *)
(* and copyRoutine (the main package) and of the stack package they use.   *)
(*                                                                         *)
(* The main goroutine runs parallelCopy and, inside it, jobDispatcher; the *)
(* workers are the goroutines started by jobDispatcher, each running       *)
(* copyRoutine.  One action is one step of one goroutine.                  *)
(***************************************************************************)
EXTENDS Bags, FiniteSets, Integers, Sequences, TLC

(***************************************************************************)
(* Bounds of the model.                                                    *)
(***************************************************************************)
\* the largest number of files in the source tree
MaxFiles == 2
\* the largest value of the -jobs flag
MaxJobs == 2
\* the longest stack package stack is first called on
MaxStack == 2
\* the largest number of calls of Push and Pop in a run of the package
MaxCalls == 3

VARIABLES
    \* ---- the arguments of parallelCopy and the file system it runs on
    src,         \* the source argument
    dest,        \* the destination argument
    recurse,     \* -recurse
    cont,        \* -continue
    jobs,        \* -jobs, as parallelCopy passes it on
    fs,          \* the file system: what the source and the destination are,
                 \* the files under the source, the files that cannot be copied
    \* ---- the main goroutine: parallelCopy and jobDispatcher
    pc,          \* where the main goroutine is
    srcAbs,      \* parallelCopy: srcAbs
    destAbs,     \* parallelCopy: destAbs
    count,       \* parallelCopy: count
    srcFiles,    \* parallelCopy: srcFiles
    destFiles,   \* parallelCopy: destFiles
    result,      \* what parallelCopy returned (Running until it returns)
    njobs,       \* jobDispatcher: its own jobs, clamped at line 244
    copyLock,    \* jobDispatcher: the copyJob {mu, src, dest}
    errChannel,  \* jobDispatcher: the messages buffered in the channel
    chanCap,     \* the capacity errChannel was made with
    started,     \* jobDispatcher: i, the number of go statements executed
    total,       \* jobDispatcher: total
    ret,         \* jobDispatcher: ret
    \* ---- the workers: copyRoutine
    wpc,         \* where each worker is
    wjob,        \* each worker's locals src and dest
    \* ---- history
    claimLog,    \* the pairs claimed so far, in the order of the claims
    copied,      \* bag: the pairs CopyFile was called on and copied
    failedLog,   \* bag: the pairs CopyFile was called on and failed on
    emptyClaims, \* the number of claims that found the queue empty
    sent,        \* the messages each worker has sent, in the order it sent them
    directCopies,\* the number of calls of CopyFile made by parallelCopy itself
    \* ---- package stack on its own: the memory its functions work on
    arrays,      \* the backing arrays allocated so far
    slices,      \* the Stack values allocated so far; a *Stack is the index
                 \* of one of them, or 0 for nil
    calls        \* the calls of Push and Pop made so far, with what they
                 \* were given and what they returned

inputs  == <<src, dest, recurse, cont, jobs, fs>>
mainv   == <<pc, srcAbs, destAbs, count, srcFiles, destFiles, result>>
dispv   == <<njobs, copyLock, errChannel, chanCap, started, total, ret>>
workv   == <<wpc, wjob>>
history == <<claimLog, copied, failedLog, emptyClaims, sent, directCopies>>
stackv  == <<arrays, slices, calls>>
vars    == <<inputs, mainv, dispv, workv, history, stackv>>

-----------------------------------------------------------------------------
(***************************************************************************)
(* Strings (package strings and path/filepath, as the program uses them).  *)
(***************************************************************************)
Separator == "/"

HasSuffix(s, suffix) ==
    /\ Len(s) >= Len(suffix)
    /\ SubSeq(s, Len(s) - Len(suffix) + 1, Len(s)) = suffix

HasPrefix(s, prefix) ==
    /\ Len(s) >= Len(prefix)
    /\ SubSeq(s, 1, Len(prefix)) = prefix

\* strings.TrimPrefix: s without the leading prefix, s itself if it has none
TrimPrefix(s, prefix) ==
    IF HasPrefix(s, prefix) THEN SubSeq(s, Len(prefix) + 1, Len(s)) ELSE s

\* strings.Join([]string{a, b}, "")
Join2(a, b) == a \o b

\* filepath.Join(root, name) on a root with at most one trailing separator:
\* the cleaned root, one separator, the name.  filepath.Walk builds every
\* path it visits this way.
FilepathJoin(root, name) ==
    IF HasSuffix(root, Separator) THEN root \o name
    ELSE root \o Separator \o name

\* The working directory relative arguments are resolved against.
Cwd == "/w"

\* cp.AbsolutePath: an absolute path is kept, a relative one is resolved
\* against the working directory; a trailing separator is kept.
AbsolutePath(p) ==
    IF HasPrefix(p, Separator) THEN p ELSE FilepathJoin(Cwd, p)


-----------------------------------------------------------------------------
(***************************************************************************)
(* Package stack.  A *Stack is nil or points to a slice of strings.        *)
(***************************************************************************)
NilStack == [isNil |-> TRUE, elems |-> <<>>]

StackOf(s) == [isNil |-> FALSE, elems |-> s]

\* stack.Push: nil for a nil stack, else val appended at the tail
Push(stk, val) ==
    IF stk.isNil THEN NilStack ELSE StackOf(Append(stk.elems, val))

\* Pop, were the stack a queue: the first element and the rest
PopFirst(stk) ==
    IF stk.isNil \/ Len(stk.elems) = 0 THEN <<"", NilStack>>
    ELSE <<Head(stk.elems), StackOf(Tail(stk.elems))>>

\* stack.Pop: <<"", nil>> for a nil or empty stack; else the last element
\* and a pointer to a new slice holding the first n elements
Pop(stk) ==
    IF stk.isNil \/ Len(stk.elems) = 0 THEN <<"", NilStack>>
    ELSE LET n == Len(stk.elems) - 1
         IN  <<stk.elems[n + 1], StackOf(SubSeq(stk.elems, 1, n))>>

\* stack.Merge: every element of src pushed on dest, in order
RECURSIVE Merge(_, _)
Merge(dst, from) ==
    IF Len(from.elems) = 0 THEN dst
    ELSE Merge(Push(dst, Head(from.elems)), StackOf(Tail(from.elems)))

(***************************************************************************)
(* Package stack in memory.  A Stack is a slice: a backing array and a     *)
(* length, its capacity being the length of the array (every slice of the *)
(* package starts at the head of its array).  A *Stack is the index in     *)
(* slices of a Stack, or NilPtr.                                           *)
(***************************************************************************)
NilPtr == 0

\* the strings pushed
StackValues == {"a", "b"}

\* the pointers there can be: the first stack and one more for each call
PtrIds == 0..(MaxCalls + 1)

\* *p, for p not nil
Deref(p) == SubSeq(arrays[slices[p].arr], 1, slices[p].len)

\* the stack p points to, as Push and Pop above see it
ValueOf(p) == IF p = NilPtr THEN NilStack ELSE StackOf(Deref(p))

\* the array append allocates when the capacity is used up: twice as long
\* (1 for an empty one), the elements copied, val after them
GrownArray(elems, val) ==
    LET newcap == IF Len(elems) = 0 THEN 1 ELSE 2 * Len(elems)
    IN  [i \in 1..newcap |->
            IF i <= Len(elems) THEN elems[i]
            ELSE IF i = Len(elems) + 1 THEN val ELSE ""]

\* what is written down of a call
Call(op, p, val, elem, r) ==
    [op |-> op, arg |-> p, was |-> ValueOf(p), val |-> val, elem |-> elem,
     ret |-> r]

\* stack.Push(p, val), lines 7-18: nil for nil; else *p = append(*p, val),
\* in the array of *p when it has room, in a new array when it has none
StackPush(p, val) ==
    /\ Len(calls) < MaxCalls
    /\ p <= Len(slices)
    /\ IF p = NilPtr
       THEN /\ calls' = Append(calls, Call("Push", p, val, "", NilPtr))
            /\ UNCHANGED <<arrays, slices>>
       ELSE /\ calls' = Append(calls, Call("Push", p, val, "", p))
            /\ IF slices[p].len < Len(arrays[slices[p].arr])
               THEN /\ arrays' = [arrays EXCEPT
                                     ![slices[p].arr][slices[p].len + 1] = val]
                    /\ slices' = [slices EXCEPT ![p].len = @ + 1]
               ELSE /\ arrays' = Append(arrays, GrownArray(Deref(p), val))
                    /\ slices' = [slices EXCEPT
                                     ![p] = [arr |-> Len(arrays) + 1,
                                             len |-> @.len + 1]]
    /\ UNCHANGED <<inputs, mainv, dispv, workv, history>>

\* StackPop, were the stack shortened in place and its own pointer returned
StackPopInPlace(p) ==
    /\ Len(calls) < MaxCalls
    /\ p <= Len(slices)
    /\ IF p = NilPtr \/ slices[p].len = 0
       THEN /\ calls' = Append(calls, Call("Pop", p, "", "", NilPtr))
            /\ UNCHANGED <<arrays, slices>>
       ELSE LET n == slices[p].len - 1
            IN  /\ calls' = Append(calls,
                                   Call("Pop", p, "",
                                        arrays[slices[p].arr][n + 1], p))
                /\ slices' = [slices EXCEPT ![p].len = n]
                /\ UNCHANGED arrays
    /\ UNCHANGED <<inputs, mainv, dispv, workv, history>>

\* stack.Pop(p), lines 20-27: ("", nil) for nil or empty; else the element
\* at n and a pointer to a new Stack, the first n elements of the same array
StackPop(p) ==
    /\ Len(calls) < MaxCalls
    /\ p <= Len(slices)
    /\ IF p = NilPtr \/ slices[p].len = 0
       THEN /\ calls' = Append(calls, Call("Pop", p, "", "", NilPtr))
            /\ UNCHANGED <<arrays, slices>>
       ELSE LET n == slices[p].len - 1
            IN  /\ calls' = Append(calls,
                                   Call("Pop", p, "",
                                        arrays[slices[p].arr][n + 1],
                                        Len(slices) + 1))
                /\ slices' = Append(slices,
                                    [arr |-> slices[p].arr, len |-> n])
                /\ UNCHANGED arrays
    /\ UNCHANGED <<inputs, mainv, dispv, workv, history>>

-----------------------------------------------------------------------------
(***************************************************************************)
(* The file system and the collaborators of package cp.                    *)
(***************************************************************************)
\* What a path argument can be: AbsolutePath fails on it, Lstat fails on
\* it, it is a non-directory, it is a directory.
Kinds == {"unresolved", "missing", "file", "dir"}

\* The paths filepath.Walk(root, fn) calls fn on for the non-directories
\* under root, in the order of the traversal.
WalkFiles(root) ==
    [i \in 1..Len(fs.tree) |-> FilepathJoin(root, fs.tree[i])]

\* countFiles: one more for every non-directory visited
CountFiles(root) == Len(WalkFiles(root))

\* visitDirectory, over a whole walk: every non-directory pushed on files
RECURSIVE VisitDirectory(_, _)
VisitDirectory(files, paths) ==
    IF paths = <<>> THEN files
    ELSE VisitDirectory(Push(files, Head(paths)), Tail(paths))

\* recurseFileTree: the stack after the walk
RecurseFileTree(directory, stk) ==
    VisitDirectory(StackOf(stk), WalkFiles(directory)).elems

\* cp.CopyFile fails on the files that cannot be copied
CopyFileFails(s, d) == s \in fs.unreadable

\* the error CopyFile returns for s
CopyErr(s) == "cannot copy " \o s

Nil == "nil"
Running == "running"
ErrUnresolved == "cannot resolve path"
ErrLstat == "lstat failed"
ErrNoRecurse == "source is a directory, but you did not provide -recurse"
ErrDestNotDir == "source is a directory but destination is not"

-----------------------------------------------------------------------------
(***************************************************************************)
(* Initial states: the arguments and the file system, nothing done yet.    *)
(***************************************************************************)
NoOne == -1

\* the ids a worker can have: jobDispatcher starts workers 0..njobs-1
WorkerIds == 0..(MaxJobs - 1)

\* the name of the i-th file of the trees the dispatcher is run on
FileName(i) == IF i % 2 = 0 THEN "s/f" \o ToString(i) ELSE "f" \o ToString(i)

Tree(n) == [i \in 1..n |-> FileName(i)]

\* the sequences of at most n distinct elements of S
RECURSIVE Arrangements(_, _)
Arrangements(S, n) ==
    IF n = 0 THEN {<<>>}
    ELSE LET shorter == Arrangements(S, n - 1)
         IN  shorter \cup {Append(t, x) : t \in shorter, x \in S} 

Distinct(t) == \A i, j \in 1..Len(t) : i # j => t[i] # t[j]

\* package stack on its own has not been called
NoStack == arrays = <<>> /\ slices = <<>> /\ calls = <<>>

Unstarted ==
    /\ pc = "resolveSource"
    /\ srcAbs = "" /\ destAbs = "" /\ count = 0
    /\ srcFiles = <<>> /\ destFiles = <<>>
    /\ result = Running
    /\ copyLock = [mu |-> NoOne, src |-> NilStack, dest |-> NilStack]
    /\ njobs = 0
    /\ errChannel = <<>> /\ chanCap = 0
    /\ started = 0 /\ total = 0 /\ ret = <<>>
    /\ wpc = [id \in WorkerIds |-> "unstarted"]
    /\ wjob = [id \in WorkerIds |-> [src |-> "", dest |-> ""]]
    /\ claimLog = <<>> /\ copied = EmptyBag /\ failedLog = EmptyBag
    /\ emptyClaims = 0 /\ directCopies = 0
    /\ sent = [id \in WorkerIds |-> <<>>]

\* the file systems with the given trees under the source
FileSystems(source, trees) ==
    UNION {
      { [srcKind |-> sk, destKind |-> dk, walkErr |-> we, tree |-> t,
         unreadable |-> u] :
          dk \in Kinds, we \in BOOLEAN,
          u \in IF sk = "dir"
                THEN SUBSET {FilepathJoin(AbsolutePath(source), t[i]) :
                               i \in 1..Len(t)}
                ELSE SUBSET {source} }
      : sk \in Kinds, t \in trees }

\* the roots of the Path Mapper's specification: absolute and relative,
\* with and without a trailing separator, the root directory itself
Roots == {"/", "/a", "/a/", "/a/s", "/a/s/", "a", "a/"}

\* the files of its trees, relative to the source root
MapNames == {"a", "s", "a/s", "s/a"}

InitMap ==
    /\ src \in Roots
    /\ dest \in Roots
    /\ recurse \in BOOLEAN
    /\ cont = FALSE
    /\ jobs = 1
    /\ fs \in {f \in FileSystems(src, {t \in Arrangements(MapNames, MaxFiles) :
                                          Distinct(t)}) :
                  f.unreadable = {}}
    /\ Unstarted
    /\ NoStack

\* The dispatcher's specification: one pair of roots, every tree size,
\* every set of unreadable files, every policy.
Init ==
    /\ src = "/a"
    /\ dest = "/b"
    /\ recurse \in BOOLEAN
    /\ cont \in BOOLEAN
    /\ jobs \in (-1)..MaxJobs
    /\ fs \in FileSystems(src, {Tree(n) : n \in 0..MaxFiles})
    /\ Unstarted
    /\ NoStack

-----------------------------------------------------------------------------
(***************************************************************************)
(* parallelCopy, up to the call of jobDispatcher.                          *)
(***************************************************************************)
Return(err) == /\ result' = err
               /\ pc' = "done"

\* lines 69-79: resolve the source; a non-directory is copied directly
ResolveSource ==
    /\ pc = "resolveSource"
    /\ \/ /\ fs.srcKind = "unresolved"
          /\ Return(ErrUnresolved)
          /\ UNCHANGED <<srcAbs, copied, failedLog, directCopies>>
       \/ /\ fs.srcKind = "missing"
          /\ srcAbs' = AbsolutePath(src)
          /\ Return(ErrLstat)
          /\ UNCHANGED <<copied, failedLog, directCopies>>
       \/ /\ fs.srcKind = "file"
          /\ srcAbs' = AbsolutePath(src)
          /\ directCopies' = directCopies + 1
          /\ IF CopyFileFails(src, dest)
             THEN /\ Return(CopyErr(src))
                  /\ failedLog' = failedLog (+) SetToBag({<<src, dest>>})
                  /\ UNCHANGED copied
             ELSE /\ Return(Nil)
                  /\ copied' = copied (+) SetToBag({<<src, dest>>})
                  /\ UNCHANGED failedLog
       \/ /\ fs.srcKind = "dir"
          /\ srcAbs' = AbsolutePath(src)
          /\ pc' = "checkRecurse"
          /\ UNCHANGED <<result, copied, failedLog, directCopies>>
    /\ UNCHANGED <<stackv, inputs, destAbs, count, srcFiles, destFiles, dispv, workv,
                   claimLog, emptyClaims, sent>>

\* CheckRecurse, were -recurse not looked at
CheckRecurseSkipped ==
    /\ pc = "checkRecurse"
    /\ pc' = "resolveDest"
    /\ UNCHANGED <<stackv, inputs, srcAbs, destAbs, count, srcFiles, destFiles, result,
                   dispv, workv, history>>

\* lines 81-83: a directory is copied only with -recurse
CheckRecurse ==
    /\ pc = "checkRecurse"
    /\ IF ~recurse THEN Return(ErrNoRecurse)
       ELSE pc' = "resolveDest" /\ UNCHANGED result
    /\ UNCHANGED <<stackv, inputs, srcAbs, destAbs, count, srcFiles, destFiles, dispv,
                   workv, history>>

\* lines 86-96: the destination must be an existing directory
ResolveDest ==
    /\ pc = "resolveDest"
    /\ \/ /\ fs.destKind = "unresolved"
          /\ Return(ErrUnresolved)
          /\ UNCHANGED destAbs
       \/ /\ fs.destKind = "missing"
          /\ destAbs' = AbsolutePath(dest)
          /\ Return(ErrLstat)
       \/ /\ fs.destKind = "file"
          /\ destAbs' = AbsolutePath(dest)
          /\ Return(ErrDestNotDir)
       \/ /\ fs.destKind = "dir"
          /\ destAbs' = AbsolutePath(dest)
          /\ pc' = "enumerate"
          /\ UNCHANGED result
    /\ UNCHANGED <<stackv, inputs, srcAbs, count, srcFiles, destFiles, dispv, workv,
                   history>>

\* make(stack.Stack, n): n empty strings
MakeStack(n) == [i \in 1..n |-> ""]

\* lines 100-108: count the files, then list them; an error met by the walk
\* ends the process (log.Fatal)
Enumerate ==
    /\ pc = "enumerate"
    /\ IF fs.walkErr
       THEN /\ pc' = "fatal"
            /\ UNCHANGED <<count, srcFiles, destFiles>>
       ELSE /\ count' = CountFiles(srcAbs)
            /\ srcFiles' = RecurseFileTree(srcAbs, MakeStack(0))
            /\ destFiles' = MakeStack(count')
            /\ pc' = "mapPaths"
    /\ UNCHANGED <<stackv, inputs, srcAbs, destAbs, result, dispv, workv, history>>

\* the builtin copy(dst, from): the first min(len) elements of from over dst
CopySlice(dst, from) ==
    [i \in 1..Len(dst) |-> IF i <= Len(from) THEN from[i] ELSE dst[i]]

\* WithSeparator, were the roots left as they were given
WithSeparatorOmitted(root) == root

\* lines 119-121 and 129-131: a separator is appended to a root without one
WithSeparator(root) ==
    IF ~HasSuffix(root, Separator) THEN Join2(root, Separator) ELSE root

\* lines 125-128: the source root is trimmed from every path
StripRoot(files, root) ==
    [i \in 1..Len(files) |-> TrimPrefix(files[i], root)]

\* lines 135-138: the destination root is put before every path
PrependRoot(files, root) ==
    [i \in 1..Len(files) |-> Join2(root, files[i])]

\* lines 114-138: the destination list
MapPaths ==
    /\ pc = "mapPaths"
    /\ srcAbs' = WithSeparator(srcAbs)
    /\ destAbs' = WithSeparator(destAbs)
    /\ destFiles' = PrependRoot(StripRoot(CopySlice(destFiles, srcFiles),
                                          srcAbs'), destAbs')
    /\ pc' = "dispatch"
    /\ UNCHANGED <<stackv, inputs, count, srcFiles, result, dispv, workv, history>>

-----------------------------------------------------------------------------
(***************************************************************************)
(* jobDispatcher, run by the main goroutine.                               *)
(***************************************************************************)
\* the workers started so far
Workers == {id \in WorkerIds : wpc[id] # "unstarted"}

\* Clamp, were the number of workers not clamped
ClampNot(n, size) == n

\* lines 243-245: no more workers than jobs
Clamp(n, size) == IF n > size THEN size ELSE n

\* Capacity, were the channel to hold one message whatever the workers
CapacityOfOne(n) == IF n < 0 THEN n ELSE 1

\* lines 250-254: the capacity of the channel
Capacity(n) == IF cont THEN n * 2 ELSE n

\* lines 240-254: the shared copyJob, the clamped number of workers and the
\* channel; make panics on a negative capacity
Dispatch ==
    /\ pc = "dispatch"
    /\ copyLock' = [mu |-> NoOne, src |-> StackOf(srcFiles),
                    dest |-> StackOf(destFiles)]
    /\ njobs' = Clamp(jobs, Len(srcFiles))
    /\ IF njobs' < 0
       THEN /\ pc' = "panic"
            /\ UNCHANGED chanCap
       ELSE /\ chanCap' = Capacity(njobs')
            /\ pc' = "spawn"
    /\ UNCHANGED <<stackv, inputs, srcAbs, destAbs, count, srcFiles, destFiles, result,
                   errChannel, started, total, ret, workv, history>>

\* lines 255-261: one go statement for each i < jobs, then total := jobs
Spawn ==
    /\ pc = "spawn"
    /\ IF started < njobs
       THEN /\ wpc' = [wpc EXCEPT ![started] = "lock"]
            /\ started' = started + 1
            /\ UNCHANGED <<pc, total>>
       ELSE /\ total' = njobs
            /\ pc' = "receive"
            /\ UNCHANGED <<wpc, started>>
    /\ UNCHANGED <<stackv, inputs, srcAbs, destAbs, count, srcFiles, destFiles, result,
                   njobs, copyLock, errChannel, chanCap, ret, wjob, history>>

\* Receive, were a failed event counted as the end of its worker too
ReceiveCountingFailures ==
    /\ pc = "receive"
    /\ errChannel # <<>>
    /\ LET err == Head(errChannel)
       IN  /\ errChannel' = Tail(errChannel)
           /\ ret' = IF err.err # Nil THEN Append(ret, err.err) ELSE ret
           /\ total' = total - 1
           /\ pc' = IF total' = 0 THEN "dispatched" ELSE pc
    /\ UNCHANGED <<stackv, inputs, srcAbs, destAbs, count, srcFiles, destFiles, result,
                   njobs, copyLock, chanCap, started, workv, history>>

\* lines 262-280: one message received: an error is appended to ret, a
\* completion is counted, and the last completion returns ret
Receive ==
    /\ pc = "receive"
    /\ errChannel # <<>>
    /\ LET err == Head(errChannel)
       IN  /\ errChannel' = Tail(errChannel)
           /\ IF err.err # Nil
              THEN /\ ret' = Append(ret, err.err)
                   /\ UNCHANGED <<total, pc>>
              ELSE /\ total' = total - 1
                   /\ pc' = IF total' = 0 THEN "dispatched" ELSE pc
                   /\ UNCHANGED ret
    /\ UNCHANGED <<stackv, inputs, srcAbs, destAbs, count, srcFiles, destFiles, result,
                   njobs, copyLock, chanCap, started, workv, history>>

\* ParallelCopyReturn, were a non-empty list of the dispatcher an error of
\* parallelCopy
ParallelCopyReturnErrors ==
    /\ pc = "dispatched"
    /\ Return(IF ret = <<>> THEN Nil ELSE ret[1])
    /\ UNCHANGED <<stackv, inputs, srcAbs, destAbs, count, srcFiles, destFiles, dispv,
                   workv, history>>

\* lines 146-147: parallelCopy drops the dispatcher's list and returns nil
ParallelCopyReturn ==
    /\ pc = "dispatched"
    /\ Return(Nil)
    /\ UNCHANGED <<stackv, inputs, srcAbs, destAbs, count, srcFiles, destFiles, dispv,
                   workv, history>>

-----------------------------------------------------------------------------
(***************************************************************************)
(* copyRoutine, run by worker id.                                          *)
(***************************************************************************)
\* what a send on errChannel needs: room in the buffer
CanSend == Len(errChannel) < chanCap

Message(id, err, s, d) == [id |-> id, err |-> err, src |-> s, dest |-> d]

\* Lock, were the mutex no mutex: it is taken whoever holds it
LockNoMutex(id) ==
    /\ wpc[id] = "lock"
    /\ copyLock' = [copyLock EXCEPT !.mu = id]
    /\ wpc' = [wpc EXCEPT ![id] = "popSrc"]
    /\ UNCHANGED <<stackv, inputs, mainv, njobs, errChannel, chanCap, started, total,
                   ret, wjob, history>>

\* line 207: jobs.mu.Lock()
Lock(id) ==
    /\ wpc[id] = "lock"
    /\ copyLock.mu = NoOne
    /\ copyLock' = [copyLock EXCEPT !.mu = id]
    /\ wpc' = [wpc EXCEPT ![id] = "popSrc"]
    /\ UNCHANGED <<stackv, inputs, mainv, njobs, errChannel, chanCap, started, total,
                   ret, wjob, history>>

\* PopSrc, were the mutex released between the two pops
PopSrcThenUnlock(id) ==
    /\ wpc[id] = "popSrc"
    /\ LET popped == Pop(copyLock.src)
       IN  /\ wjob' = [wjob EXCEPT ![id].src = popped[1]]
           /\ copyLock' = [copyLock EXCEPT !.src = popped[2], !.mu = NoOne]
    /\ wpc' = [wpc EXCEPT ![id] = "popDest"]
    /\ UNCHANGED <<stackv, inputs, mainv, njobs, errChannel, chanCap, started, total,
                   ret, history>>

\* line 208: src, jobs.src = stack.Pop(jobs.src)
PopSrc(id) ==
    /\ wpc[id] = "popSrc"
    /\ LET popped == Pop(copyLock.src)
       IN  /\ wjob' = [wjob EXCEPT ![id].src = popped[1]]
           /\ copyLock' = [copyLock EXCEPT !.src = popped[2]]
    /\ wpc' = [wpc EXCEPT ![id] = "popDest"]
    /\ UNCHANGED <<stackv, inputs, mainv, njobs, errChannel, chanCap, started, total,
                   ret, history>>

\* lines 209-210: dest, jobs.dest = stack.Pop(jobs.dest), then the test of
\* jobs.src: nil means no job was claimed
PopDest(id) ==
    /\ wpc[id] = "popDest"
    /\ LET popped == Pop(copyLock.dest)
       IN  /\ wjob' = [wjob EXCEPT ![id].dest = popped[1]]
           /\ copyLock' = [copyLock EXCEPT !.dest = popped[2]]
           /\ IF copyLock.src.isNil
              THEN /\ wpc' = [wpc EXCEPT ![id] = "sendCompleted"]
                   /\ emptyClaims' = emptyClaims + 1
                   /\ UNCHANGED claimLog
              ELSE /\ wpc' = [wpc EXCEPT ![id] = "unlock"]
                   /\ claimLog' = Append(claimLog, <<wjob[id].src, popped[1]>>)
                   /\ UNCHANGED emptyClaims
    /\ UNCHANGED <<stackv, inputs, mainv, njobs, errChannel, chanCap, started, total,
                   ret, copied, failedLog, sent, directCopies>>

\* line 214: the completed event, sent with the lock held
SendCompleted(id) ==
    /\ wpc[id] = "sendCompleted"
    /\ CanSend
    /\ errChannel' = Append(errChannel, Message(id, Nil, "", ""))
    /\ sent' = [sent EXCEPT ![id] = Append(@, Message(id, Nil, "", ""))]
    /\ wpc' = [wpc EXCEPT ![id] = "unlockReturn"]
    /\ UNCHANGED <<stackv, inputs, mainv, njobs, copyLock, chanCap, started, total, ret,
                   wjob, claimLog, copied, failedLog, emptyClaims, directCopies>>

\* UnlockReturn, were the Unlock of line 215 missing
ReturnLocked(id) ==
    /\ wpc[id] = "unlockReturn"
    /\ wpc' = [wpc EXCEPT ![id] = "returned"]
    /\ UNCHANGED <<stackv, inputs, mainv, dispv, wjob, history>>

\* lines 215-216: unlock and return
UnlockReturn(id) ==
    /\ wpc[id] = "unlockReturn"
    /\ copyLock' = [copyLock EXCEPT !.mu = NoOne]
    /\ wpc' = [wpc EXCEPT ![id] = "returned"]
    /\ UNCHANGED <<stackv, inputs, mainv, njobs, errChannel, chanCap, started, total,
                   ret, wjob, history>>

\* line 218: unlock with a job claimed
Unlock(id) ==
    /\ wpc[id] = "unlock"
    /\ copyLock' = [copyLock EXCEPT !.mu = NoOne]
    /\ wpc' = [wpc EXCEPT ![id] = "copy"]
    /\ UNCHANGED <<stackv, inputs, mainv, njobs, errChannel, chanCap, started, total,
                   ret, wjob, history>>

\* CopyFile, were every success reported on the channel too
CopyFileReporting(id) ==
    /\ wpc[id] = "copy"
    /\ LET job == <<wjob[id].src, wjob[id].dest>>
           done == Message(id, Nil, job[1], job[2])
       IN  IF CopyFileFails(job[1], job[2])
           THEN /\ wpc' = [wpc EXCEPT ![id] = "sendFailed"]
                /\ failedLog' = failedLog (+) SetToBag({job})
                /\ UNCHANGED <<copied, errChannel, sent>>
           ELSE /\ CanSend
                /\ wpc' = [wpc EXCEPT ![id] = "lock"]
                /\ copied' = copied (+) SetToBag({job})
                /\ errChannel' = Append(errChannel, done)
                /\ sent' = [sent EXCEPT ![id] = Append(@, done)]
                /\ UNCHANGED failedLog
    /\ UNCHANGED <<stackv, inputs, mainv, njobs, copyLock, chanCap, started, total,
                   ret, wjob, claimLog, emptyClaims, directCopies>>

\* lines 225-226: the copy of the claimed pair ends, well or not
CopyFile(id) ==
    /\ wpc[id] = "copy"
    /\ LET job == <<wjob[id].src, wjob[id].dest>>
       IN  IF CopyFileFails(job[1], job[2])
           THEN /\ wpc' = [wpc EXCEPT ![id] = "sendFailed"]
                /\ failedLog' = failedLog (+) SetToBag({job})
                /\ UNCHANGED copied
           ELSE /\ wpc' = [wpc EXCEPT ![id] = "lock"]
                /\ copied' = copied (+) SetToBag({job})
                /\ UNCHANGED failedLog
    /\ UNCHANGED <<stackv, inputs, mainv, dispv, wjob, claimLog, emptyClaims, sent,
                   directCopies>>

\* AfterFailure, were -continue not looked at: the worker always returns
AfterFailureStop == "returned"

\* AfterFailure, were the return of line 229 missing: the worker always
\* goes on
AfterFailureContinue == "lock"

\* where a worker goes after it reported a failure (lines 228-231)
AfterFailure == IF ~cont THEN "returned" ELSE "lock"

\* SendFailed, were a failure to cancel the run: the queue is emptied, the
\* other workers find no job left
SendFailedCancelling(id) ==
    /\ wpc[id] = "sendFailed"
    /\ CanSend
    /\ LET failed == Message(id, CopyErr(wjob[id].src), wjob[id].src,
                              wjob[id].dest)
       IN  /\ errChannel' = Append(errChannel, failed)
           /\ sent' = [sent EXCEPT ![id] = Append(@, failed)]
    /\ copyLock' = [copyLock EXCEPT !.src = NilStack, !.dest = NilStack]
    /\ wpc' = [wpc EXCEPT ![id] = AfterFailure]
    /\ UNCHANGED <<stackv, inputs, mainv, njobs, chanCap, started, total, ret,
                   wjob, claimLog, copied, failedLog, emptyClaims, directCopies>>

\* lines 227-231: the failed event; without -continue the worker returns
SendFailed(id) ==
    /\ wpc[id] = "sendFailed"
    /\ CanSend
    /\ LET failed == Message(id, CopyErr(wjob[id].src), wjob[id].src,
                              wjob[id].dest)
       IN  /\ errChannel' = Append(errChannel, failed)
           /\ sent' = [sent EXCEPT ![id] = Append(@, failed)]
    /\ wpc' = [wpc EXCEPT ![id] = AfterFailure]
    /\ UNCHANGED <<stackv, inputs, mainv, njobs, copyLock, chanCap, started, total, ret,
                   wjob, claimLog, copied, failedLog, emptyClaims, directCopies>>

copyRoutine(id) ==
    \/ Lock(id)
    \/ PopSrc(id)
    \/ PopDest(id)
    \/ SendCompleted(id)
    \/ UnlockReturn(id)
    \/ Unlock(id)
    \/ CopyFile(id)
    \/ SendFailed(id)

-----------------------------------------------------------------------------
(***************************************************************************)
(* The program.                                                            *)
(***************************************************************************)
parallelCopy ==
    \/ ResolveSource
    \/ CheckRecurse
    \/ ResolveDest
    \/ Enumerate
    \/ MapPaths
    \/ ParallelCopyReturn

jobDispatcher ==
    \/ Dispatch
    \/ Spawn
    \/ Receive

Next ==
    \/ parallelCopy
    \/ jobDispatcher
    \/ \E id \in WorkerIds : copyRoutine(id)

Spec == Init /\ [][Next]_vars

\* The Path Mapper's specification: parallelCopy up to the call of
\* jobDispatcher, on every pair of roots and every tree of MapNames.
NextMap ==
    \/ ResolveSource
    \/ CheckRecurse
    \/ ResolveDest
    \/ Enumerate
    \/ MapPaths

SpecMap == InitMap /\ [][NextMap]_vars

\* Every goroutine that can take a step eventually takes one: the main
\* goroutine and each worker are scheduled by the Go runtime, Lock returns
\* once the mutex is free and a send once the buffer has room.
Fairness ==
    /\ WF_vars(parallelCopy \/ jobDispatcher)
    /\ \A id \in WorkerIds : WF_vars(copyRoutine(id))

SpecLive == Spec /\ Fairness

\* Package stack on its own: the program is not run.  There is no stack
\* yet, and nil alone can be passed, or there is one, of any length up to
\* MaxStack, in an array it fills; every call is on nil or on a stack
\* there is.
InitStack ==
    /\ src = "/a"
    /\ dest = "/b"
    /\ recurse = FALSE
    /\ cont = FALSE
    /\ jobs = 0
    /\ fs = CHOOSE f \in FileSystems(src, {Tree(0)}) : TRUE
    /\ Unstarted
    /\ calls = <<>>
    /\ \/ arrays = <<>> /\ slices = <<>>
       \/ \E n \in 0..MaxStack : \E elems \in [1..n -> StackValues] :
              /\ arrays = <<elems>>
              /\ slices = <<[arr |-> 1, len |-> n]>>

NextStack ==
    \/ \E p \in PtrIds : \E val \in StackValues : StackPush(p, val)
    \/ \E p \in PtrIds : StackPop(p)

SpecStack == InitStack /\ [][NextStack]_vars

-----------------------------------------------------------------------------
(***************************************************************************)
(* Properties.                                                             *)
(***************************************************************************)
\* the number of pending jobs jobDispatcher is called with
NumJobs == Len(srcFiles)

\* the pairs the job queue is built from: source i with destination i
Pairs == {<<srcFiles[i], destFiles[i]>> : i \in 1..NumJobs}

\* the pairs claimed so far
Claimed == {claimLog[k] : k \in 1..Len(claimLog)}

\* the main goroutine is in jobDispatcher, past the construction of the queue
InDispatcher == pc \in {"spawn", "receive"}

\* jobDispatcher has returned its list
Returned == pc \in {"dispatched", "done"} /\ started > 0

\* C1: whatever the interleaving of the workers, no pair is returned by two
\* claims, every claim returns one of the original index-aligned pairs, and
\* once a claim has found the queue empty exactly N claims have succeeded
\* and the claimed pairs are the N original pairs.
C1_EachPairClaimedOnce ==
    /\ Distinct(claimLog)
    /\ Claimed \subseteq Pairs
    /\ emptyClaims > 0 => /\ Len(claimLog) = NumJobs
                          /\ Claimed = Pairs

\* two workers have each claimed a pair and one of them has then found the
\* queue empty
C1_Witness ==
    /\ emptyClaims = 1
    /\ Len(claimLog) = 2
    /\ \E a, b \in Workers : /\ a # b
                             /\ wpc[a] = "copy"
                             /\ wpc[b] = "sendCompleted"
                             /\ <<wjob[a].src, wjob[a].dest>> = claimLog[1]

\* no goroutine can take a step
Quiescent == ~ENABLED Next

\* the errors of the failed copy attempts, as a bag
FailedErrors ==
    LET attempts == BagToSet(failedLog)
        errsOf(e) == {a \in attempts : CopyErr(a[1]) = e}
        sum[S \in SUBSET attempts] ==
            IF S = {} THEN 0
            ELSE LET a == CHOOSE x \in S : TRUE
                 IN  failedLog[a] + sum[S \ {a}]
    IN  [e \in {CopyErr(a[1]) : a \in attempts} |-> sum[errsOf(e)]]

\* the errors of ret, as a bag
ReturnedErrors ==
    [e \in {ret[i] : i \in 1..Len(ret)} |->
        Cardinality({i \in 1..Len(ret) : ret[i] = e})]

\* C2: without -continue, a run in which a copy failed still ends with
\* jobDispatcher returned, its list holding exactly the reported failures:
\* the run never stops with the Aggregator waiting for a completed event.
C2_TerminatesAfterFailure ==
    (~cont /\ started > 0 /\ failedLog # EmptyBag /\ Quiescent)
        => (Returned /\ ReturnedErrors = FailedErrors)

\* every worker has sent its completed event, or is past that
AllCompleted ==
    \A id \in WorkerIds :
        id < njobs => wpc[id] \in {"unlockReturn", "returned"}

\* C3: with -continue, at least one job and at least one worker asked for,
\* jobDispatcher eventually returns, whatever files fail: every worker goes
\* on after a failure and sends its completed event, the count reaches 0.
C3_ContinueTerminates ==
    (pc = "dispatch" /\ cont /\ NumJobs >= 1 /\ jobs >= 1)
        ~> (pc = "dispatched" /\ total = 0 /\ AllCompleted)

\* with -continue, jobDispatcher has returned although every file failed
C3_Witness ==
    /\ cont
    /\ pc = "dispatched"
    /\ NumJobs = 2
    /\ BagCardinality(failedLog) = 2

\* C4: with -continue, when jobDispatcher returns its list holds one error
\* per failed copy attempt, no more and no less: no failed event is left in
\* the channel or still to be sent, and every job was attempted once.
C4_OneErrorPerFailure ==
    (cont /\ Returned) =>
        /\ ReturnedErrors = FailedErrors
        /\ Len(ret) = BagCardinality(failedLog)
        /\ errChannel = <<>>
        /\ \A id \in Workers : wpc[id] # "sendFailed"
        /\ copied (+) failedLog = SetToBag(Pairs)

\* one of two files failed, the other was copied, and two workers ran
C4_Witness ==
    /\ cont
    /\ pc = "dispatched"
    /\ njobs = 2
    /\ Len(ret) = 1
    /\ BagCardinality(copied) = 1

\* C5: when no file fails, with or without -continue, jobDispatcher
\* eventually returns an empty list, every pair copied exactly once.
C5_AllCopiedWithoutFailure ==
    (pc = "dispatch" /\ fs.unreadable = {} /\ NumJobs >= 1 /\ jobs >= 1)
        ~> (pc = "dispatched" /\ ret = <<>> /\ copied = SetToBag(Pairs)
            /\ \A id \in Workers : wpc[id] # "copy")

\* two files copied by two workers without -continue, no failure
C5_Witness ==
    /\ ~cont
    /\ pc = "dispatched"
    /\ ret = <<>>
    /\ njobs = 2
    /\ BagCardinality(copied) = 2

\* C6: when jobDispatcher returns on the last completed event, every worker
\* has terminated: none copies, none holds or waits for the lock, none has
\* a message to send.
C6_WorkersTerminatedAtReturn ==
    pc = "dispatched" =>
        /\ \A id \in WorkerIds : id < njobs => wpc[id] = "returned"
        /\ copyLock.mu = NoOne

\* the completed events sent so far, and those still in the channel
CompletedSent ==
    emptyClaims - Cardinality({id \in WorkerIds : wpc[id] = "sendCompleted"})

CompletedInChannel ==
    Cardinality({i \in 1..Len(errChannel) : errChannel[i].err = Nil})

\* C7: whenever the queue lock is free, the two lists of the shared queue
\* have the same length and are nil together, and the pairs claimed so far
\* are exactly those missing from both.
C7_ListsAlignedWhenUnlocked ==
    (copyLock.mu = NoOne /\ (InDispatcher \/ Returned)) =>
        /\ copyLock.src.isNil = copyLock.dest.isNil
        /\ Len(copyLock.src.elems) = Len(copyLock.dest.elems)
        /\ copyLock.src.isNil => Len(claimLog) = NumJobs
        /\ ~copyLock.src.isNil =>
               Len(copyLock.src.elems) + Len(claimLog) = NumJobs

\* the lock is free with one of two pairs claimed and two workers started
C7_Witness ==
    /\ copyLock.mu = NoOne
    /\ NumJobs = 2
    /\ Len(copyLock.src.elems) = 1
    /\ Len(copyLock.dest.elems) = 1
    /\ Len(claimLog) = 1
    /\ started = 2

\* C8: once the workers are started there are exactly min(jobs, N) of them,
\* with the ids 0..W-1, never more than there are jobs, and the completed
\* events the Aggregator still waits for are those W less the ones received.
C8_WorkersClamped ==
    (pc = "receive" \/ Returned) =>
        LET W == IF jobs < NumJobs THEN jobs ELSE NumJobs
        IN  /\ Workers = 0..(W - 1)
            /\ started = W
            /\ W <= NumJobs
            /\ total = W - (CompletedSent - CompletedInChannel)

\* two workers were asked for and one file is pending: one worker runs
C8_Witness ==
    /\ pc = "receive"
    /\ jobs = 2
    /\ NumJobs = 1
    /\ Workers = {0}
    /\ total = 1

\* C9: the queue is built and workers are started only for a directory
\* source with -recurse and a directory destination; a directory without
\* -recurse returns its error with nothing copied; a non-directory source is
\* copied by one direct call of CopyFile, without workers.
C9_SetupGating ==
    /\ (InDispatcher \/ Workers # {} \/ ~copyLock.src.isNil) =>
           /\ fs.srcKind = "dir" /\ recurse /\ fs.destKind = "dir"
           /\ directCopies = 0
    /\ (pc = "done" /\ fs.srcKind = "dir" /\ ~recurse) =>
           /\ result = ErrNoRecurse
           /\ copied = EmptyBag /\ failedLog = EmptyBag
           /\ directCopies = 0 /\ Workers = {} /\ copyLock.src.isNil
    /\ (pc = "done" /\ fs.srcKind = "file") =>
           /\ directCopies = 1
           /\ copied (+) failedLog = SetToBag({<<src, dest>>})
           /\ Workers = {} /\ copyLock.src.isNil

\* a directory with files was given without -recurse and the call is over
C9_Witness ==
    /\ pc = "done"
    /\ fs.srcKind = "dir"
    /\ fs.destKind = "dir"
    /\ Len(fs.tree) = 2
    /\ ~recurse
    /\ result = ErrNoRecurse

\* p without its trailing separator, if it has one
WithoutSeparator(p) ==
    IF HasSuffix(p, Separator) THEN SubSeq(p, 1, Len(p) - 1) ELSE p

\* the root a path argument names, with exactly one trailing separator
RootOf(p) == WithoutSeparator(AbsolutePath(p)) \o Separator

\* C10: the destination list is as long as the source list and its i-th
\* path is the destination root, with exactly one trailing separator, then
\* the i-th source path less the source root with exactly one trailing
\* separator: the same relative path under both roots, whether or not the
\* roots were given with a trailing separator.
C10_PathMapper ==
    pc = "dispatch" =>
        /\ Len(destFiles) = Len(srcFiles)
        /\ Len(srcFiles) = Len(fs.tree)
        /\ \A i \in 1..Len(srcFiles) :
              /\ srcFiles[i] = RootOf(src) \o fs.tree[i]
              /\ destFiles[i] = RootOf(dest) \o fs.tree[i]
              /\ destFiles[i] = RootOf(dest) \o TrimPrefix(srcFiles[i], RootOf(src))

\* two files mapped from a source root given without a separator to a
\* destination root given with one
C10_Witness ==
    /\ pc = "dispatch"
    /\ src = "/a"
    /\ dest = "/a/s/"
    /\ srcFiles = <<"/a/s/a", "/a/a">>
    /\ destFiles = <<"/a/s/s/a", "/a/s/a">>

\* the places of the failed and of the completed events among the messages
\* worker id has sent
FailedBy(id) == {i \in 1..Len(sent[id]) : sent[id][i].err # Nil}

CompletedBy(id) == {i \in 1..Len(sent[id]) : sent[id][i].err = Nil}

\* C11: without -continue, a worker whose copy failed sends one failed
\* event, carrying its id, the pair it claimed and the error, and returns:
\* it sends nothing else, claims nothing more and holds no lock, neither
\* while it sends nor once it has stopped.
C11_FailureStopsWorker ==
    ~cont =>
        \A id \in Workers :
            /\ wpc[id] = "sendFailed" =>
                   /\ sent[id] = <<>>
                   /\ copyLock.mu # id
            /\ FailedBy(id) # {} =>
                   /\ sent[id] = <<Message(id, CopyErr(wjob[id].src),
                                           wjob[id].src, wjob[id].dest)>>
                   /\ <<wjob[id].src, wjob[id].dest>> \in BagToSet(failedLog)
                   /\ wpc[id] = "returned"
                   /\ copyLock.mu # id

\* without -continue, worker 0 has stopped on a failure while worker 1 is
\* still at work
C11_Witness ==
    /\ ~cont
    /\ FailedBy(0) # {}
    /\ wpc[0] = "returned"
    /\ wpc[1] \in {"lock", "popSrc", "popDest", "copy"}

\* what C12 says of worker id in every state
CompletedLast(id) ==
    /\ Cardinality(CompletedBy(id)) <= 1
    /\ CompletedBy(id) # {} =>
           /\ CompletedBy(id) = {Len(sent[id])}
           /\ wjob[id] = [src |-> "", dest |-> ""]
           /\ wpc[id] \in {"unlockReturn", "returned"}
    /\ wpc[id] = "returned" => CompletedBy(id) # {}
    /\ wpc[id] \in {"sendCompleted", "unlockReturn"} => copyLock.src.isNil

\* C12: with -continue, every worker sends completed once, as its last
\* message and only after a claim of its own found the queue empty; it
\* terminates in no other way, so after every failed event it is back at
\* claiming; and every started worker does reach that end.
C12_ContinueWorkerLifecycle ==
    /\ [](cont => \A id \in Workers : CompletedLast(id))
    /\ \A id \in WorkerIds :
           (cont /\ wpc[id] = "lock")
               ~> (wpc[id] = "returned" /\ CompletedBy(id) # {})

\* with -continue, one worker has sent two failed events and then completed
C12_Witness ==
    /\ cont
    /\ wpc[0] = "returned"
    /\ Len(sent[0]) = 3
    /\ FailedBy(0) = {1, 2}
    /\ CompletedBy(0) = {3}

\* no pair is left in the shared queue
QueueEmpty == copyLock.src.elems = <<>> /\ copyLock.dest.elems = <<>>

\* worker id has stopped on a failure of its own
StoppedOnFailure(id) == wpc[id] = "returned" /\ FailedBy(id) # {}

\* the failed events sent so far
FailedSent ==
    LET n[S \in SUBSET WorkerIds] ==
            IF S = {} THEN 0
            ELSE LET id == CHOOSE x \in S : TRUE
                 IN  Cardinality(FailedBy(id)) + n[S \ {id}]
    IN  n[WorkerIds]

\* C13: without -continue a failure stops its own worker only.  A worker
\* that has not failed is never stopped before a claim of its own found the
\* queue empty; so when no goroutine can take a step the queue is empty or
\* all W workers have stopped on a failure of their own; at most W failed events
\* are ever sent.
C13_FailureStopsOnlyItsWorker ==
    (~cont /\ (InDispatcher \/ Returned)) =>
        /\ \A id \in Workers :
               (wpc[id] = "returned" /\ ~StoppedOnFailure(id)) =>
                   /\ CompletedBy(id) # {}
                   /\ QueueEmpty
                   /\ Len(claimLog) = NumJobs
        /\ (pc = "receive" /\ Quiescent) =>
               \/ QueueEmpty
               \/ \A id \in WorkerIds : id < njobs => StoppedOnFailure(id)
        /\ FailedSent <= njobs

\* without -continue, worker 0 has stopped on a failure and worker 1 has
\* then claimed the other job, copied it and found the queue empty
C13_Witness ==
    /\ ~cont
    /\ StoppedOnFailure(0)
    /\ wpc[1] = "returned"
    /\ CompletedBy(1) # {}
    /\ BagCardinality(copied) = 1
    /\ claimLog[1] = <<sent[0][1].src, sent[0][1].dest>>

\* the workers between Lock (line 207) and Unlock (lines 215, 218)
InCriticalSection ==
    {id \in Workers :
        wpc[id] \in {"popSrc", "popDest", "sendCompleted", "unlockReturn",
                     "unlock"}}

\* C14: the queue lock is held only for the pop.  At most one worker is in
\* the critical section, it is the holder of the lock, and the holder of
\* the lock is never about to copy nor about to send a message, on a full
\* channel or not.
C14_LockHeldOnlyForPop ==
    /\ Cardinality(InCriticalSection) <= 1
    /\ \A id \in Workers :
           /\ id \in InCriticalSection <=> copyLock.mu = id
           /\ copyLock.mu = id =>
                  wpc[id] \notin {"copy", "sendFailed", "sendCompleted"}

\* the pair at index i of the original lists, counted from 0 as the code does
PairAt(i) == <<srcFiles[i + 1], destFiles[i + 1]>>

\* C15: claims are last-in first-out and index-aligned.  The k-th claim
\* that finds a job returns the pair at index N-k of the original lists,
\* and every pair handed to CopyFile, copied or failed, and every pair
\* carried by a failed event, is the pair of one index.
C15_ClaimsLastInFirstOut ==
    (InDispatcher \/ Returned) =>
        /\ \A k \in 1..Len(claimLog) : claimLog[k] = PairAt(NumJobs - k)
        /\ \A id \in Workers :
               wpc[id] \in {"copy", "sendFailed"} =>
                   <<wjob[id].src, wjob[id].dest>> \in Pairs
        /\ BagToSet(copied) \subseteq Pairs
        /\ BagToSet(failedLog) \subseteq Pairs
        /\ \A id \in Workers : \A i \in FailedBy(id) :
               <<sent[id][i].src, sent[id][i].dest>> \in Pairs

\* two files: the second was claimed first and copied, the first was
\* claimed second and its failure reported
C15_Witness ==
    /\ NumJobs = 2
    /\ Len(claimLog) = 2
    /\ PairAt(0) # PairAt(1)
    /\ copied = SetToBag({PairAt(1)})
    /\ \E id \in Workers : \E i \in FailedBy(id) :
           <<sent[id][i].src, sent[id][i].dest>> = PairAt(0)

\* the messages sent on errChannel so far, by all workers
TotalSent ==
    LET n[S \in SUBSET WorkerIds] ==
            IF S = {} THEN 0
            ELSE LET id == CHOOSE x \in S : TRUE
                 IN  Len(sent[id]) + n[S \ {id}]
    IN  n[WorkerIds]

\* the copy attempts that failed and whose event is not sent yet
FailedUnsent == Cardinality({id \in WorkerIds : wpc[id] = "sendFailed"})

\* C16: in a run of the worker pool the messages sent are the completed
\* events, at most one per worker and so at most W, and one failed event
\* per copy attempt of a worker that failed; a copy that went well sends
\* nothing.  When the run is over, the total is the number of completed
\* events plus the number of failed attempts.
C16_TrafficBounded ==
    (InDispatcher \/ Returned) =>
        /\ \A id \in WorkerIds : Cardinality(CompletedBy(id)) <= 1
        /\ CompletedSent <= njobs
        /\ FailedSent = BagCardinality(failedLog) - FailedUnsent
        /\ TotalSent = CompletedSent + FailedSent
        /\ TotalSent <= njobs + BagCardinality(failedLog)
        /\ (Returned \/ Quiescent) =>
               /\ FailedUnsent = 0
               /\ TotalSent = CompletedSent + BagCardinality(failedLog)

\* a run that is over: two workers, one file copied and one failed, three
\* messages in all, the two completed events and the failed one
C16_Witness ==
    /\ Returned
    /\ njobs = 2
    /\ BagCardinality(copied) = 1
    /\ BagCardinality(failedLog) = 1
    /\ CompletedSent = 2
    /\ TotalSent = 3

\* C17: with no job, or with 0 workers asked for, W is 0: jobDispatcher
\* starts no worker and does not wait on the channel: with its list empty
\* it has a step to take until it has returned.
C17_NoWorkerReturnsAtOnce ==
    (InDispatcher /\ njobs = 0) =>
        /\ started = 0
        /\ ret = <<>>
        /\ ~Quiescent

\* the workers that have a message to send and have not sent it yet
Sending == {id \in WorkerIds : wpc[id] \in {"sendFailed", "sendCompleted"}}

\* C18: without -continue every worker sends at most one message, a failed
\* event or its completed event.  The messages sent since the start and
\* those about to be sent are at most W together, received or not, so the
\* channel of capacity W never holds more than W messages and every send
\* finds room.
C18_NoSendBlocks ==
    (~cont /\ (InDispatcher \/ Returned)) =>
        /\ \A id \in WorkerIds :
               Len(sent[id]) + (IF id \in Sending THEN 1 ELSE 0) <= 1
        /\ TotalSent + Cardinality(Sending) <= njobs
        /\ Len(errChannel) <= njobs
        /\ Sending # {} => CanSend

\* without -continue, two workers: the failed event of one is still in the
\* channel, nothing received yet, and the other is about to send completed
C18_Witness ==
    /\ ~cont
    /\ njobs = 2
    /\ pc = "receive"
    /\ ret = <<>>
    /\ Len(errChannel) = 1
    /\ errChannel[1].err # Nil
    /\ \E id \in WorkerIds : wpc[id] = "sendCompleted"

\* the errors returned before any copy: lines 71, 75, 82, 88, 92 and 95
SetupErrors == {ErrUnresolved, ErrLstat, ErrNoRecurse, ErrDestNotDir}

\* parallelCopy has returned after jobDispatcher did
ReturnedThroughDispatcher == pc = "done" /\ started > 0

\* C19, as claimed: a failed copy never changes the result of parallelCopy.
\* When jobDispatcher has returned parallelCopy returns nil whatever the
\* list, and an error returned by parallelCopy is a setup error, no copy
\* having failed.
C19_OnlySetupErrorsReturned ==
    /\ ReturnedThroughDispatcher => result = Nil
    /\ (pc = "done" /\ result # Nil) =>
           /\ result \in SetupErrors
           /\ failedLog = EmptyBag

\* C19, amended: a failed copy of a worker never changes the result of
\* parallelCopy.  When jobDispatcher has returned parallelCopy returns nil
\* whatever the list, and an error returned by parallelCopy is a setup
\* error, no copy having been attempted, or the error of the direct copy of
\* a source that is not a directory, no worker having been started.
C19_WorkerFailureNeverReturned ==
    /\ ReturnedThroughDispatcher => result = Nil
    /\ started > 0 => result \in {Running, Nil}
    /\ (pc = "done" /\ result # Nil) =>
           \/ /\ result \in SetupErrors
              /\ copied = EmptyBag /\ failedLog = EmptyBag
              /\ directCopies = 0 /\ started = 0
           \/ /\ fs.srcKind = "file"
              /\ result = CopyErr(src)
              /\ failedLog = SetToBag({<<src, dest>>})
              /\ directCopies = 1 /\ started = 0

\* parallelCopy has returned nil after a dispatcher that returned a list of
\* two errors
C19_Witness ==
    /\ ReturnedThroughDispatcher
    /\ Len(ret) = 2
    /\ BagCardinality(failedLog) = 2
    /\ result = Nil

\* the last call of package stack and the one before it
LastCall == calls[Len(calls)]
CallBefore == calls[Len(calls) - 1]

\* the last call is a Pop of what the call before it, a Push, returned
PopOfPush ==
    /\ Len(calls) >= 2
    /\ CallBefore.op = "Push"
    /\ LastCall.op = "Pop"
    /\ LastCall.arg = CallBefore.ret

\* Pop, just returned: on a stack of n >= 1 elements the element returned
\* is the last, the stack returned is not nil and holds the first n-1, and
\* the stack passed is as it was; on an empty stack and on nil, "" and nil.
\* It is what Pop computes on the stack as a value.
PopLaw(c) ==
    /\ <<c.elem, ValueOf(c.ret)>> = Pop(c.was)
    /\ IF c.was.isNil \/ c.was.elems = <<>>
       THEN c.elem = "" /\ c.ret = NilPtr
       ELSE LET n == Len(c.was.elems)
            IN  /\ c.elem = c.was.elems[n]
                /\ c.ret # NilPtr
                /\ Deref(c.ret) = SubSeq(c.was.elems, 1, n - 1)
                /\ n = 1 => Deref(c.ret) = <<>>
    /\ ValueOf(c.arg) = c.was

\* Push, just returned, on a stack that is not nil: the pointer returned is
\* the pointer passed and the stack is what it was with val after it.  It
\* is what Push computes on the stack as a value.
PushLaw(c) ==
    /\ ValueOf(c.ret) = Push(c.was, c.val)
    /\ ~c.was.isNil =>
           /\ c.ret = c.arg
           /\ Deref(c.arg) = Append(c.was.elems, c.val)

\* C20, as claimed: Pop and Push are as above, and Pop(Push(s, v)) is
\* (v, s) for every stack s, nil or not, and every value v.
C20_PopOfPushEveryStack ==
    calls # <<>> =>
        /\ LastCall.op = "Pop" => PopLaw(LastCall)
        /\ LastCall.op = "Push" => PushLaw(LastCall)
        /\ PopOfPush =>
               /\ LastCall.elem = CallBefore.val
               /\ ValueOf(LastCall.ret) = CallBefore.was

\* C20, amended: Pop and Push are as above; Push of nil returns nil; and
\* Pop(Push(s, v)) is (v, s) for every stack s that is not nil and every
\* value v, and ("", nil) for nil.  The Pop of a stack of one element
\* returns an empty stack that is not nil, and the Pop of that one nil.
C20_PopOfPushNonNilStack ==
    calls # <<>> =>
        /\ LastCall.op = "Pop" => PopLaw(LastCall)
        /\ LastCall.op = "Push" =>
               /\ PushLaw(LastCall)
               /\ LastCall.was.isNil => LastCall.ret = NilPtr
        /\ PopOfPush =>
               IF CallBefore.was.isNil
               THEN LastCall.elem = "" /\ LastCall.ret = NilPtr
               ELSE /\ LastCall.elem = CallBefore.val
                    /\ ValueOf(LastCall.ret) = CallBefore.was
        /\ (/\ Len(calls) >= 2
            /\ CallBefore.op = "Pop"
            /\ Len(CallBefore.was.elems) = 1
            /\ LastCall.op = "Pop"
            /\ LastCall.arg = CallBefore.ret) =>
               /\ LastCall.arg # NilPtr
               /\ LastCall.elem = "" /\ LastCall.ret = NilPtr

\* "b" pushed on the stack <<"a", "b">>, whose array is full, then popped
\* from the stack Push returned
C20_Witness ==
    /\ PopOfPush
    /\ CallBefore.was = StackOf(<<"a", "b">>)
    /\ CallBefore.val = "b"
    /\ LastCall.elem = "b"
    /\ LastCall.ret # NilPtr /\ LastCall.ret # LastCall.arg
=============================================================================
